---- MODULE Spec2Model ----
(***************************************************************************)
(* Console support-agent system (src/main.py): the session context CTX,    *)
(* the output guardrail, the tools with their gates, the four agents and   *)
(* the CLI loop that classifies an utterance, routes it to a responder,    *)
(* prints the guarded answer and resets the context.                       *)
(*                                                                         *)
(* Texts are TLA+ strings; TLC evaluates Len, \o and SubSeq on them, so    *)
(* substring tests, lower-casing and the regular expression of the         *)
(* guardrail are computed character by character.                          *)
(***************************************************************************)
EXTENDS Naturals, Sequences, FiniteSets, TLC

VARIABLES
    CTX,            \* the global SupportContext
    pc,             \* position of the __main__ script
    user_text,      \* the stripped line read by the loop
    issue_type,     \* the loop's local variable issue_type
    hint,           \* the text handed to the responder
    agent,          \* the agent the loop handed the turn to
    tool,           \* the tool the responder invoked in this turn
    final_output,   \* res.final_output of the responder call
    console         \* lines printed since the last line was read

vars == <<CTX, pc, user_text, issue_type, hint, agent, tool, final_output, console>>

\* Python's None, for the Optional[str] fields and for unset locals.
None == "<None>"

(***************************************************************************)
(* Bounds of the model.                                                    *)
(***************************************************************************)
\* An utterance is built from at most MaxWords pieces of Vocabulary.
MaxWords == 2

(***************************************************************************)
(* Characters and the str methods the program uses.                        *)
(***************************************************************************)
UpperLetters == "ABCDEFGHIJKLMNOPQRSTUVWXYZ"
LowerLetters == "abcdefghijklmnopqrstuvwxyz"
Digits == "0123456789"

CharAt(s, i) == SubSeq(s, i, i)

CharsOf(s) == {CharAt(s, i) : i \in 1..Len(s)}

UpperSet == CharsOf(UpperLetters)
LowerSet == CharsOf(LowerLetters)

\* \w of the re module
WordChars == UpperSet \cup LowerSet \cup CharsOf(Digits) \cup {"_"}

IsLetter(c) == c \in UpperSet \/ c \in LowerSet

IsWordChar(c) == c \in WordChars

IsSpace(c) == c = " "

LowerOf ==
    [c \in UpperSet |->
        CharAt(LowerLetters, CHOOSE i \in 1..Len(UpperLetters) : CharAt(UpperLetters, i) = c)]

UpperOf ==
    [c \in LowerSet |->
        CharAt(UpperLetters, CHOOSE i \in 1..Len(LowerLetters) : CharAt(LowerLetters, i) = c)]

LowerChar(c) == IF c \in UpperSet THEN LowerOf[c] ELSE c

UpperChar(c) == IF c \in LowerSet THEN UpperOf[c] ELSE c

\* str.lower(), over the positions lo..hi of s (halving keeps the nesting of
\* the evaluation logarithmic in the length)
RECURSIVE LowerRange(_, _, _)
LowerRange(s, lo, hi) ==
    IF lo > hi THEN ""
    ELSE IF lo = hi THEN LowerChar(CharAt(s, lo))
    ELSE LET mid == (lo + hi) \div 2
         IN  LowerRange(s, lo, mid) \o LowerRange(s, mid + 1, hi)

Lower(s) == LowerRange(s, 1, Len(s))

RECURSIVE LStrip(_)
LStrip(s) ==
    IF s # "" /\ IsSpace(CharAt(s, 1)) THEN LStrip(SubSeq(s, 2, Len(s))) ELSE s

RECURSIVE RStrip(_)
RStrip(s) ==
    IF s # "" /\ IsSpace(CharAt(s, Len(s))) THEN RStrip(SubSeq(s, 1, Len(s) - 1)) ELSE s

\* str.strip()
Strip(s) == RStrip(LStrip(s))

\* str.title(): a letter that follows a non-letter is upper-cased, any other
\* letter is lower-cased.
TitleChar(s, i) ==
    IF i > 1 /\ IsLetter(CharAt(s, i - 1)) THEN LowerChar(CharAt(s, i))
    ELSE UpperChar(CharAt(s, i))

RECURSIVE TitleRange(_, _, _)
TitleRange(s, lo, hi) ==
    IF lo > hi THEN ""
    ELSE IF lo = hi THEN TitleChar(s, lo)
    ELSE LET mid == (lo + hi) \div 2
         IN  TitleRange(s, lo, mid) \o TitleRange(s, mid + 1, hi)

Title(s) == TitleRange(s, 1, Len(s))

\* str.startswith(p)
StartsWith(s, p) == Len(s) >= Len(p) /\ SubSeq(s, 1, Len(p)) = p

\* w in t
Contains(t, w) ==
    \E i \in 1..(Len(t) + 1) : i + Len(w) - 1 <= Len(t) /\ SubSeq(t, i, i + Len(w) - 1) = w

\* re.search(alt1|alt2|..., text, re.I) for literal lower-case alternatives
SearchAnyI(alts, text) == LET t == Lower(text) IN \E w \in alts : Contains(t, w)

(***************************************************************************)
(* Guardrail.                                                              *)
(***************************************************************************)
\* the run of \w characters of t that starts at position i
RECURSIVE WordRun(_, _)
WordRun(t, i) ==
    IF i <= Len(t) /\ IsWordChar(CharAt(t, i)) THEN 1 + WordRun(t, i + 1) ELSE 0

\* \b before position i, where a word character follows
BoundaryBefore(t, i) == i = 1 \/ ~IsWordChar(CharAt(t, i - 1))

\* \b before position j, where a word character precedes
BoundaryAfter(t, j) == j > Len(t) \/ ~IsWordChar(CharAt(t, j))

\* Length of the match of \b(sorry|apologiz\w*)\b (IGNORECASE) that starts at
\* position i of t, or 0 when the pattern does not match there.
BANNED_PHRASES(t, i) ==
    IF ~BoundaryBefore(t, i) THEN 0
    ELSE IF i + 4 <= Len(t) /\ Lower(SubSeq(t, i, i + 4)) = "sorry" /\ BoundaryAfter(t, i + 5)
         THEN 5
    ELSE IF i + 7 <= Len(t) /\ Lower(SubSeq(t, i, i + 7)) = "apologiz"
         THEN 8 + WordRun(t, i + 8)
    ELSE 0

\* the first position of the run of \w characters that holds position i
RECURSIVE WordStart(_, _)
WordStart(t, i) == IF BoundaryBefore(t, i) THEN i ELSE WordStart(t, i - 1)

\* SubAt for a substitution that stops after the first match (count=1)
SubAt_FirstOnly(t, i) ==
    LET first(j) == BANNED_PHRASES(t, j) > 0
                      /\ \A k \in 1..(j - 1) : BANNED_PHRASES(t, k) = 0
    IN  IF first(i) THEN "(removed)"
        ELSE IF IsWordChar(CharAt(t, i)) /\ first(WordStart(t, i)) THEN ""
        ELSE CharAt(t, i)

\* What BANNED_PHRASES.sub("(removed)", t) puts for position i of t.  A match
\* starts after a \b and ends at the end of its word, so the matches are
\* whole words: the scan replaces the word at its first position, drops its
\* other positions and copies every other character.
SubAt(t, i) ==
    IF BANNED_PHRASES(t, i) > 0 THEN "(removed)"
    ELSE IF IsWordChar(CharAt(t, i)) /\ BANNED_PHRASES(t, WordStart(t, i)) > 0 THEN ""
    ELSE CharAt(t, i)

RECURSIVE SubRange(_, _, _)
SubRange(t, lo, hi) ==
    IF lo > hi THEN ""
    ELSE IF lo = hi THEN SubAt(t, lo)
    ELSE LET mid == (lo + hi) \div 2
         IN  SubRange(t, lo, mid) \o SubRange(t, mid + 1, hi)

guard_output(text) ==
    IF text = "" \/ text = None THEN text ELSE SubRange(text, 1, Len(text))

(***************************************************************************)
(* Tools and their gates.                                                  *)
(***************************************************************************)
BillingWords == {"refund", "invoice", "bill", "payment"}
TechnicalWords == {"error", "crash", "down", "restart", "bug", "technical"}

\* classify_issue with the two keyword tests in the other order
classify_issue_TechnicalFirst(text) ==
    LET t == Lower(text)
    IN  IF \E w \in TechnicalWords : Contains(t, w) THEN "technical"
        ELSE IF \E w \in BillingWords : Contains(t, w) THEN "billing"
        ELSE "general"

\* classify_issue whose billing keywords include the words of a refund request
classify_issue_RefundWords(text) ==
    LET t == Lower(text)
    IN  IF \E w \in BillingWords \cup {"chargeback", "money back"} : Contains(t, w)
        THEN "billing"
        ELSE IF \E w \in TechnicalWords : Contains(t, w) THEN "technical"
        ELSE "general"

classify_issue(text) ==
    LET t == Lower(text)
    IN  IF \E w \in BillingWords : Contains(t, w) THEN "billing"
        ELSE IF \E w \in TechnicalWords : Contains(t, w) THEN "technical"
        ELSE "general"

get_invoice(ctx) ==
    LET who == ctx.name
        tier == IF ctx.is_premium_user THEN "Premium" ELSE "Free"
    IN  "Invoice for " \o who \o ": Plan=" \o tier
            \o ", Last payment: 2025-08-01, Amount: $19.00"

\* the refund gate reading the issue type instead of the membership
refund_is_enabled_IssueType(ctx) == ctx.issue_type = "billing"

refund_is_enabled(ctx) == ctx.is_premium_user

RefundDisabled == "Refund tool disabled: premium membership required."

refund(ctx) ==
    IF ~refund_is_enabled(ctx) THEN RefundDisabled
    ELSE "Refund initiated for " \o ctx.name \o ". You will receive confirmation via email."

\* the restart gate open for any classified issue
restart_service_is_enabled_AnyIssue(ctx) == ctx.issue_type # None

restart_service_is_enabled(ctx) == ctx.issue_type = "technical"

RestartDisabled == "Restart tool disabled: this request is not a technical issue."
RestartSent == "Service restart command sent. Please wait ~2 minutes and try again."

restart_service(ctx) ==
    IF ~restart_service_is_enabled(ctx) THEN RestartDisabled ELSE RestartSent

check_service_status == "All systems operational, no outages detected in your region."

general_faq ==
    "Here's some info: You can update profile in Settings > Account. "
        \o "Type 'invoice', 'refund', or describe a technical error for specialized help."

(***************************************************************************)
(* Agents.  Runner.run is the agent runtime: it returns the text the agent *)
(* answers with.  A responder follows its policy: it invokes the tool its  *)
(* hint selects and answers with that tool's result verbatim; the triage   *)
(* agent answers with the label of classify_issue, in some layout, or with *)
(* a text that is no label.                                                *)
(***************************************************************************)
Categories == {"billing", "technical", "general"}

billing_agent(h) == IF h = "refund" THEN "refund" ELSE "get_invoice"

technical_agent(h) == IF h = "restart" THEN "restart_service" ELSE "check_service_status"

general_agent(h) == "general_faq"

\* the tool an agent invokes for the text it is run with
AgentTool(a, text) ==
    CASE a = "billing_agent" -> billing_agent(text)
      [] a = "technical_agent" -> technical_agent(text)
      [] OTHER -> general_agent(text)

\* the result of a tool, computed against the context of the call
CallTool(t, ctx) ==
    CASE t = "get_invoice" -> get_invoice(ctx)
      [] t = "refund" -> refund(ctx)
      [] t = "restart_service" -> restart_service(ctx)
      [] t = "check_service_status" -> check_service_status
      [] OTHER -> general_faq

\* the answers Runner.run(triage_agent, text) may give
triage_agent(text) ==
    LET label == classify_issue(text)
    IN  {label, " " \o Title(label) \o " ", "unknown"}

\* run_with_context that returns the answer as it came
run_with_context_NoGuard(raw) == raw

\* run_with_context(agent, text), given the answer raw of Runner.run
run_with_context(raw) == guard_output(raw)

(***************************************************************************)
(* Inputs.                                                                 *)
(***************************************************************************)
NameInputs == {"", " Alice", "Sorry"}

PremiumAnswers == {"y", " Yes", "n", ""}

\* lines typed whole
Lines ==
    { "I want a refund for my invoice", "please refund my payment",
      "the app keeps crashing", "how do I change my email",
      "Invoice", "my PAYMENT failed", "billing error", "Error 500", "restart it",
      "a bug", "Technical question", "download", "I was charged twice, money back please",
      "REFUND please", "QUIT", "Exit", "quit now" }

\* lines typed piece by piece
Vocabulary == {"refund", "Bill", "CRASH", "down", "chargeback", "money back", " ", "exit"}

RECURSIVE Phrases(_)
Phrases(n) ==
    IF n = 0 THEN {""}
    ELSE LET shorter == Phrases(n - 1)
         IN  shorter \cup {t \o w : t \in shorter, w \in Vocabulary}

Utterances == Lines \cup Phrases(MaxWords)

(***************************************************************************)
(* The __main__ script.                                                    *)
(***************************************************************************)
SupportContext ==
    [name |-> "Guest", is_premium_user |-> FALSE, issue_type |-> None,
     last_agent |-> None, extra |-> <<>>]

Init ==
    /\ CTX = SupportContext
    /\ pc = "start"
    /\ user_text = None
    /\ issue_type = None
    /\ hint = None
    /\ agent = None
    /\ tool = None
    /\ final_output = None
    /\ console = <<>>

\* input("Your name: ").strip() or "Guest"
ProfileName(name_in) == IF Strip(name_in) = "" THEN "Guest" ELSE Strip(name_in)

\* input("Are you a premium user? (y/n): ").strip().lower().startswith("y")
ProfilePremium(answer) == StartsWith(Lower(Strip(answer)), "y")

\* profile setup
Setup ==
    /\ pc = "start"
    /\ \E name_in \in NameInputs, answer \in PremiumAnswers :
         CTX' = [CTX EXCEPT !.name = ProfileName(name_in),
                            !.is_premium_user = ProfilePremium(answer)]
    /\ pc' = "receive"
    /\ UNCHANGED <<user_text, issue_type, hint, agent, tool, final_output, console>>

\* the exit check that knows "exit" alone
ExitTokens_OnlyExit == {"exit"}

ExitTokens == {"exit", "quit"}

\* input("You: ") and the exit check
Receive ==
    /\ pc = "receive"
    /\ \E line \in Utterances :
         /\ user_text' = Strip(line)
         /\ IF Lower(user_text') \in ExitTokens
            THEN /\ console' = <<"Goodbye!">>
                 /\ pc' = "end"
            ELSE /\ console' = <<>>
                 /\ pc' = "triage"
    /\ UNCHANGED <<CTX, issue_type, hint, agent, tool, final_output>>

\* TriageLabel without the coercion of an invalid label
TriageLabel_NoCoerce(triage_res) ==
    Lower(Strip(IF triage_res = None THEN "" ELSE triage_res))

\* issue_type of the turn, from the triage agent's final output
TriageLabel(triage_res) ==
    LET label == Lower(Strip(IF triage_res = None THEN "" ELSE triage_res))
    IN  IF label \notin Categories THEN "general" ELSE label

\* TriageContext without the write of issue_type
TriageContext_NoIssueType(ctx, it) == [ctx EXCEPT !.last_agent = "triage"]

\* TriageContext without the write of last_agent
TriageContext_NoLastAgent(ctx, it) == [ctx EXCEPT !.issue_type = it]

\* TriageContext in which the category of the turn before sticks
TriageContext_KeepsEarlier(ctx, it) ==
    [ctx EXCEPT !.issue_type = IF ctx.last_agent \in Categories
                               THEN ctx.last_agent ELSE it,
                !.last_agent = "triage"]

\* the context after triage
TriageContext(ctx, it) == [ctx EXCEPT !.issue_type = it, !.last_agent = "triage"]

\* 1) TRIAGE
Triage ==
    /\ pc = "triage"
    /\ \E raw \in triage_agent(user_text) :
         LET it == TriageLabel(run_with_context(raw))
         IN  /\ issue_type' = it
             /\ CTX' = TriageContext(CTX, it)
             /\ console' = Append(console,
                    "→ Handoff: Triage classified issue as '" \o it \o "'.")
    /\ pc' = "route"
    /\ UNCHANGED <<user_text, hint, agent, tool, final_output>>

RefundPattern == {"refund", "chargeback", "money back"}
RestartPattern == {"restart", "crash", "down", "error"}

\* RouteHint whose billing test knows "refund" alone
RouteHint_RefundOnly(it, text) ==
    IF it = "billing"
    THEN (IF SearchAnyI({"refund"}, text) THEN "refund" ELSE "invoice")
    ELSE IF it = "technical"
    THEN (IF SearchAnyI(RestartPattern, text) THEN "restart" ELSE "status")
    ELSE text

\* RouteHint with case-sensitive searches
RouteHint_CaseSensitive(it, text) ==
    IF it = "billing"
    THEN (IF \E w \in RefundPattern : Contains(text, w) THEN "refund" ELSE "invoice")
    ELSE IF it = "technical"
    THEN (IF \E w \in RestartPattern : Contains(text, w) THEN "restart" ELSE "status")
    ELSE text

\* the hint of the turn
RouteHint(it, text) ==
    IF it = "billing"
    THEN (IF SearchAnyI(RefundPattern, text) THEN "refund" ELSE "invoice")
    ELSE IF it = "technical"
    THEN (IF SearchAnyI(RestartPattern, text) THEN "restart" ELSE "status")
    ELSE text

\* RouteAgent whose last branch hands over to the billing agent
RouteAgent_ElseBilling(it) ==
    IF it = "technical" THEN "technical_agent" ELSE "billing_agent"

\* the agent of the turn
RouteAgent(it) ==
    IF it = "billing" THEN "billing_agent"
    ELSE IF it = "technical" THEN "technical_agent"
    ELSE "general_agent"

\* Route in which a refused gate is raised as an error: the uncaught
\* exception ends the script
Route_RaisesOnDenied ==
    /\ pc = "route"
    /\ hint' = RouteHint(issue_type, user_text)
    /\ agent' = RouteAgent(issue_type)
    /\ tool' = AgentTool(agent', hint')
    /\ IF CallTool(tool', CTX) \in {RefundDisabled, RestartDisabled}
       THEN /\ final_output' = None
            /\ pc' = "end"
       ELSE /\ final_output' = run_with_context(CallTool(tool', CTX))
            /\ pc' = "output"
    /\ UNCHANGED <<CTX, user_text, issue_type, console>>

\* 2) ROUTE / HANDOFF
Route ==
    /\ pc = "route"
    /\ hint' = RouteHint(issue_type, user_text)
    /\ agent' = RouteAgent(issue_type)
    /\ tool' = AgentTool(agent', hint')
    /\ final_output' = run_with_context(CallTool(tool', CTX))
    /\ pc' = "output"
    /\ UNCHANGED <<CTX, user_text, issue_type, console>>

\* the line printed for the turn
OutputLine(ctx, text) == Title(ctx.issue_type) \o " Agent → " \o text

\* ResetContext that rebuilds the context from its defaults
ResetContext_Defaults(ctx) == [SupportContext EXCEPT !.last_agent = ctx.issue_type]

\* ResetContext without the write of last_agent
ResetContext_KeepsTriage(ctx) == [ctx EXCEPT !.issue_type = None]

\* ResetContext without the write of issue_type
ResetContext_KeepsIssue(ctx) == [ctx EXCEPT !.last_agent = ctx.issue_type]

\* ResetContext that starts from a fresh SupportContext
ResetContext_Fresh(ctx) ==
    [SupportContext EXCEPT !.name = ctx.name, !.last_agent = ctx.issue_type]

\* the context after the turn
ResetContext(ctx) == [ctx EXCEPT !.last_agent = ctx.issue_type, !.issue_type = None]

\* 3) OUTPUT and 4) loop status.  The locals of the turn are dead after it:
\* the next turn assigns each before it reads it.
Output ==
    /\ pc = "output"
    /\ console' = Append(console, OutputLine(CTX, final_output))
    /\ CTX' = ResetContext(CTX)
    /\ pc' = "receive"
    /\ user_text' = None
    /\ issue_type' = None
    /\ hint' = None
    /\ agent' = None
    /\ tool' = None
    /\ final_output' = None

Next == Setup \/ Receive \/ Triage \/ Route \/ Output

Spec == Init /\ [][Next]_vars

\* The script runs on by itself between two prompts: once a line is read,
\* each call returns and the next statement executes, so the script leaves
\* each position of the loop body.  Only the prompt waits.
Advance ==
    /\ pc \in {"triage", "route", "output"}
    /\ pc' \in {"receive", "triage", "route", "output", "end"} \ {pc}

LiveSpec == Spec /\ WF_pc(Advance)

(***************************************************************************)
(* The tools on their own: a tool is called against any context and       *)
(* returns; the loop may rewrite the context before the next call.         *)
(***************************************************************************)
SessionNames == {ProfileName(n) : n \in NameInputs}

Contexts ==
    [name : SessionNames, is_premium_user : BOOLEAN,
     issue_type : Categories \cup {None}, last_agent : {None, "triage"},
     extra : {<<>>}]

ToolInit ==
    /\ CTX \in Contexts
    /\ pc = "tools"
    /\ user_text = None
    /\ issue_type = None
    /\ hint = None
    /\ agent = None
    /\ tool = None
    /\ final_output = None
    /\ console = <<>>

CallClassify ==
    /\ pc = "tools"
    /\ tool = None
    /\ \E text \in Utterances :
         /\ user_text' = text
         /\ final_output' = classify_issue(text)
    /\ tool' = "classify_issue"
    /\ UNCHANGED <<CTX, pc, issue_type, hint, agent, console>>

CallInvoice ==
    /\ pc = "tools"
    /\ tool = None
    /\ user_text' = "invoice"
    /\ final_output' = get_invoice(CTX)
    /\ tool' = "get_invoice"
    /\ UNCHANGED <<CTX, pc, issue_type, hint, agent, console>>

CallRefund ==
    /\ pc = "tools"
    /\ tool = None
    /\ user_text' = "refund"
    /\ final_output' = refund(CTX)
    /\ tool' = "refund"
    /\ UNCHANGED <<CTX, pc, issue_type, hint, agent, console>>

CallRestart ==
    /\ pc = "tools"
    /\ tool = None
    /\ user_text' = "restart"
    /\ final_output' = restart_service(CTX)
    /\ tool' = "restart_service"
    /\ UNCHANGED <<CTX, pc, issue_type, hint, agent, console>>

CallStatus ==
    /\ pc = "tools"
    /\ tool = None
    /\ user_text' = "status"
    /\ final_output' = check_service_status
    /\ tool' = "check_service_status"
    /\ UNCHANGED <<CTX, pc, issue_type, hint, agent, console>>

CallFaq ==
    /\ pc = "tools"
    /\ tool = None
    /\ \E text \in Lines :
         /\ user_text' = text
         /\ final_output' = general_faq
    /\ tool' = "general_faq"
    /\ UNCHANGED <<CTX, pc, issue_type, hint, agent, console>>

\* the call has returned; the loop rewrites issue_type before the next call
ChangeContext ==
    /\ pc = "tools"
    /\ \E it \in Categories \cup {None} : CTX' = [CTX EXCEPT !.issue_type = it]
    /\ tool' = None
    /\ user_text' = None
    /\ final_output' = None
    /\ UNCHANGED <<pc, issue_type, hint, agent, console>>

ToolNext ==
    \/ CallClassify \/ CallInvoice \/ CallRefund \/ CallRestart
    \/ CallStatus \/ CallFaq \/ ChangeContext

ToolSpec == ToolInit /\ [][ToolNext]_vars

(***************************************************************************)
(* The guardrail on its own: guard_output is applied to a text, and again  *)
(* to its own result.                                                      *)
(***************************************************************************)
\* guard_output is applied at most MaxPasses times in a row
MaxPasses == 2

GuardPieces ==
    { "sorry ", "Sorry, ", "APOLOGIZE ", "apologizing.", "apology ", "apologies ",
      "un", "_", "(removed) ", "ok " }

RECURSIVE GuardPhrases(_)
GuardPhrases(n) ==
    IF n = 0 THEN {""}
    ELSE LET shorter == GuardPhrases(n - 1)
         IN  shorter \cup {t \o w : t \in shorter, w \in GuardPieces}

GuardTexts == GuardPhrases(MaxWords) \cup {None}

GuardInit ==
    /\ CTX = SupportContext
    /\ pc = "guard"
    /\ user_text \in GuardTexts
    /\ issue_type = None
    /\ hint = None
    /\ agent = None
    /\ tool = None
    /\ final_output = None
    /\ console = <<>>

\* one more pass of guard_output: console holds the result of every pass
GuardPass ==
    /\ pc = "guard"
    /\ Len(console) < MaxPasses
    /\ final_output' = guard_output(IF console = <<>> THEN user_text ELSE final_output)
    /\ console' = Append(console, final_output')
    /\ UNCHANGED <<CTX, pc, user_text, issue_type, hint, agent, tool>>

GuardNext == GuardPass

GuardSpec == GuardInit /\ [][GuardNext]_vars

(***************************************************************************)
(* Properties.                                                             *)
(***************************************************************************)

\* C1: the step that completes a turn leaves CTX.issue_type unset and
\* CTX.last_agent equal to the category the turn handled, whatever the
\* utterance, the premium status and the turns before.
C1_TurnReset ==
    [][pc = "output" =>
          /\ issue_type \in Categories
          /\ CTX'.issue_type = None
          /\ CTX'.last_agent = issue_type]_vars

\* a technical turn has completed with a status check: both lines are
\* printed and the loop waits for input
C1_Witness ==
    /\ pc = "receive"
    /\ CTX.issue_type = None
    /\ CTX.last_agent = "technical"
    /\ Len(console) = 2
    /\ console[2] = "Technical Agent → " \o check_service_status

\* C2: CTX.issue_type is set only between the classification and the
\* emission of the response of one turn: it is None at session start, while
\* the loop waits for input, while the triage call runs and at session end.
C2_IssueTypeWindow ==
    /\ CTX.issue_type # None => pc \in {"route", "output"}
    /\ pc \in {"start", "receive", "triage", "end"} => CTX.issue_type = None

\* the session has ended after a turn that had set issue_type
C2_Witness ==
    /\ pc = "end"
    /\ CTX.last_agent \in Categories
    /\ CTX.issue_type = None

\* C3 as stated: the only write of last_agent in a turn is the one that
\* follows the responder's output.
C3_Original == [][CTX'.last_agent # CTX.last_agent => pc = "output"]_vars

\* C3 as amended: last_agent is written twice in a turn, to "triage" when the
\* classification is stored, before the responder runs, and to the category
\* when the responder's output is printed; nothing else writes it.
C3_TwoWrites ==
    [][/\ CTX'.last_agent # CTX.last_agent =>
             \/ pc = "triage" /\ CTX'.last_agent = "triage"
             \/ pc = "output" /\ final_output # None /\ CTX'.last_agent = issue_type
       /\ pc = "triage" => CTX'.last_agent = "triage"
       /\ pc = "output" => CTX'.last_agent = issue_type /\ CTX.last_agent = "triage"]_vars

\* the billing responder is about to run and last_agent is "triage"
C3_Witness ==
    /\ pc = "route"
    /\ CTX.last_agent = "triage"
    /\ CTX.issue_type = "billing"

\* C4: after the profile setup no step changes CTX.is_premium_user.
C4_PremiumStable == [][pc # "start" => CTX'.is_premium_user = CTX.is_premium_user]_vars

\* a premium session has ended after a billing turn, still premium
C4_Witness ==
    /\ pc = "end"
    /\ CTX.is_premium_user
    /\ CTX.last_agent = "billing"

\* C5: classify_issue returns billing when the lower-cased text contains
\* refund, invoice, bill or payment; otherwise technical when it contains
\* error, crash, down, restart, bug or technical; otherwise general.
C5_HasBillingWord(t) ==
    Contains(t, "refund") \/ Contains(t, "invoice") \/ Contains(t, "bill")
        \/ Contains(t, "payment")

C5_HasTechnicalWord(t) ==
    Contains(t, "error") \/ Contains(t, "crash") \/ Contains(t, "down")
        \/ Contains(t, "restart") \/ Contains(t, "bug") \/ Contains(t, "technical")

C5_ClassifyPriority ==
    tool = "classify_issue" =>
        LET t == Lower(user_text)
        IN  final_output =
                IF C5_HasBillingWord(t) THEN "billing"
                ELSE IF C5_HasTechnicalWord(t) THEN "technical"
                ELSE "general"

\* a text with a billing and a technical keyword was classified billing
C5_Witness ==
    /\ tool = "classify_issue"
    /\ user_text = "billing error"
    /\ final_output = "billing"

\* C6: called against any context, refund returns the disabled message
\* exactly when is_premium_user is false and the confirmation that embeds
\* ctx.name exactly when it is true, and leaves the context as it was.
C6_RefundGate ==
    [][tool = None /\ tool' = "refund" =>
          /\ CTX' = CTX
          /\ final_output' # None
          /\ final_output' = "Refund tool disabled: premium membership required."
                <=> ~CTX.is_premium_user
          /\ final_output' = "Refund initiated for " \o CTX.name
                                \o ". You will receive confirmation via email."
                <=> CTX.is_premium_user]_vars

\* refund was called for a premium user while the issue is not a billing one
C6_Witness ==
    /\ tool = "refund"
    /\ CTX.is_premium_user
    /\ CTX.issue_type = "technical"
    /\ CTX.name = "Alice"
    /\ final_output = "Refund initiated for Alice. You will receive confirmation via email."

\* C7: called against any context, restart_service returns the disabled
\* message exactly when issue_type is not technical (unset included) and the
\* restart confirmation otherwise, judged on the context of the call.
C7_RestartGate ==
    [][tool = None /\ tool' = "restart_service" =>
          /\ CTX' = CTX
          /\ final_output' =
                IF CTX.issue_type = "technical"
                THEN "Service restart command sent. Please wait ~2 minutes and try again."
                ELSE "Restart tool disabled: this request is not a technical issue."]_vars

\* restart_service was refused in a context classified billing
C7_Witness ==
    /\ tool = "restart_service"
    /\ CTX.issue_type = "billing"
    /\ CTX.last_agent = "triage"
    /\ final_output = "Restart tool disabled: this request is not a technical issue."

\* C8: in a turn classified technical whose utterance matches
\* restart|crash|down|error, CTX.issue_type is technical when the restart gate
\* is checked, and the line printed is the restart confirmation.
C8_Matches(text) ==
    LET t == Lower(text)
    IN  Contains(t, "restart") \/ Contains(t, "crash") \/ Contains(t, "down")
            \/ Contains(t, "error")

C8_RestartAllowed ==
    [][issue_type = "technical" /\ C8_Matches(user_text) =>
          /\ pc = "route" =>
                /\ CTX.issue_type = "technical"
                /\ tool' = "restart_service"
                /\ final_output'
                     = "Service restart command sent. Please wait ~2 minutes and try again."
          /\ pc = "output" =>
                console' = Append(console,
                    "Technical Agent → Service restart command sent. "
                        \o "Please wait ~2 minutes and try again.")]_vars

\* the restart confirmation is about to be printed for "the app keeps crashing"
C8_Witness ==
    /\ pc = "output"
    /\ user_text = "the app keeps crashing"
    /\ tool = "restart_service"
    /\ final_output = "Service restart command sent. Please wait ~2 minutes and try again."

\* the refund-pattern test of the billing route
C9_Matches(text) ==
    LET t == Lower(text)
    IN  Contains(t, "refund") \/ Contains(t, "chargeback") \/ Contains(t, "money back")

\* C9 as stated: a billing turn whose utterance matches
\* refund|chargeback|money back prints "Billing Agent → " followed by the
\* disabled message for a free user and by "Refund initiated for <name>. ..."
\* with the session's name for a premium user, whatever the name.
C9_Original ==
    [][pc = "output" /\ issue_type = "billing" /\ C9_Matches(user_text) =>
          console' = Append(console,
              "Billing Agent → "
                  \o (IF CTX.is_premium_user
                      THEN "Refund initiated for " \o CTX.name
                               \o ". You will receive confirmation via email."
                      ELSE "Refund tool disabled: premium membership required."))]_vars

\* C9 as amended: the same, with the name as the guardrail leaves it: every
\* whole word sorry or apologiz* of the name is printed as (removed), and a
\* name without such a word is printed unchanged.
C9_RefundEndToEnd ==
    [][pc = "output" /\ issue_type = "billing" /\ C9_Matches(user_text) =>
          console' = Append(console,
              "Billing Agent → "
                  \o (IF CTX.is_premium_user
                      THEN "Refund initiated for " \o guard_output(CTX.name)
                               \o ". You will receive confirmation via email."
                      ELSE "Refund tool disabled: premium membership required."))]_vars

\* the refund confirmation for Alice has been printed
C9_Witness ==
    /\ pc = "receive"
    /\ CTX.name = "Alice"
    /\ Len(console) = 2
    /\ console[2] = "Billing Agent → Refund initiated for Alice. "
                        \o "You will receive confirmation via email."

\* C10: a turn classified general prints the fixed FAQ text, the same for a
\* premium and for a free session.
C10_GeneralFaq ==
    [][pc = "output" /\ issue_type = "general" =>
          console' = Append(console,
              "General Agent → Here's some info: You can update profile in "
                  \o "Settings > Account. Type 'invoice', 'refund', or describe a "
                  \o "technical error for specialized help.")]_vars

\* the FAQ text is about to be printed in a premium session
C10_Witness ==
    /\ pc = "output"
    /\ CTX.is_premium_user
    /\ user_text = "how do I change my email"
    /\ agent = "general_agent"
    /\ final_output = general_faq

\* a whole word of t that is "sorry" or begins with "apolog", in any case
C11_HasApology(t) ==
    \E i \in 1..Len(t) :
        /\ BoundaryBefore(t, i)
        /\ \/ /\ i + 4 <= Len(t)
              /\ Lower(SubSeq(t, i, i + 4)) = "sorry"
              /\ BoundaryAfter(t, i + 5)
           \/ /\ i + 5 <= Len(t)
              /\ Lower(SubSeq(t, i, i + 5)) = "apolog"

\* C11: the output of guard_output holds no word "sorry" and no word that
\* begins with "apolog", in any letter case; an empty or null input is
\* returned unchanged.
C11_NoApologyLeft ==
    console # <<>> =>
        IF user_text = "" \/ user_text = None THEN console[1] = user_text
        ELSE ~C11_HasApology(console[1])

\* C12: guard_output applied to its own result returns that result.
C12_Idempotent == \A i \in 1..Len(console) : console[i] = console[1]

\* a text with two banned words went through guard_output twice
C12_Witness ==
    /\ user_text = "sorry APOLOGIZE "
    /\ Len(console) >= 2
    /\ console[2] = "(removed) (removed) "

\* the text the tool of the turn returned to its responder
C13_Raw(t, ctx) ==
    CASE t = "get_invoice" -> get_invoice(ctx)
      [] t = "refund" -> refund(ctx)
      [] t = "restart_service" -> restart_service(ctx)
      [] t = "check_service_status" -> check_service_status
      [] t = "general_faq" -> general_faq

\* C13: the line printed for a turn carries the responder's output after one
\* pass of guard_output, so no text the pattern matches reaches the user.
C13_GuardedBeforePrint ==
    [][pc = "output" =>
          LET shown == guard_output(C13_Raw(tool, CTX))
          IN  /\ \E label \in {"Billing", "Technical", "General"} :
                    console' = Append(console, label \o " Agent → " \o shown)
              /\ \A i \in 1..Len(shown) : BANNED_PHRASES(shown, i) = 0]_vars

\* an invoice whose name the guardrail rewrote has been printed
C13_Witness ==
    /\ pc = "receive"
    /\ CTX.name = "Sorry"
    /\ Len(console) = 2
    /\ console[2] = "Billing Agent → Invoice for (removed): Plan=Free, "
                        \o "Last payment: 2025-08-01, Amount: $19.00"

\* C14: a line that is "exit" or "quit" in any letter case takes the session
\* from the prompt straight to its end: nothing is classified, routed,
\* answered or emitted for it, CTX is left as it was, and no step follows.
C14_ExitEndsSession ==
    [][/\ pc = "receive" /\ Lower(user_text') \in {"exit", "quit"} =>
             /\ pc' = "end"
             /\ CTX' = CTX
             /\ console' = <<"Goodbye!">>
             /\ UNCHANGED <<issue_type, hint, agent, tool, final_output>>
       /\ pc = "receive" /\ pc' = "end" => Lower(user_text') \in {"exit", "quit"}
       /\ pc = "end" => FALSE]_vars

\* the session has ended on "QUIT" after a billing turn
C14_Witness ==
    /\ pc = "end"
    /\ user_text = "QUIT"
    /\ CTX.last_agent = "billing"
    /\ CTX.issue_type = None
    /\ tool = None
    /\ console = <<"Goodbye!">>

\* the label the keyword rules give a text
C15_Label(text) ==
    LET t == Lower(text)
    IN  IF C5_HasBillingWord(t) THEN "billing"
        ELSE IF C5_HasTechnicalWord(t) THEN "technical"
        ELSE "general"

\* C15: whatever the classification step answers, CTX.issue_type is unset or
\* one of billing, technical, general: it is the label answered, or general
\* when the answer is no label; the agent of the turn is the one of that value.
C15_IssueTypeValid ==
    /\ CTX.issue_type \in {None, "billing", "technical", "general"}
    /\ pc \in {"route", "output"} =>
          /\ CTX.issue_type = issue_type
          /\ issue_type \in {C15_Label(user_text), "general"}
    /\ pc = "output" =>
          agent = CASE CTX.issue_type = "billing" -> "billing_agent"
                    [] CTX.issue_type = "technical" -> "technical_agent"
                    [] CTX.issue_type = "general" -> "general_agent"

\* an answer that is no label was stored as general and handed to the
\* general agent, for a text the keyword rules label billing
C15_Witness ==
    /\ pc = "output"
    /\ user_text = "refund"
    /\ CTX.issue_type = "general"
    /\ agent = "general_agent"

\* C16: the turn invokes one tool, chosen from the category and the raw text:
\* billing, refund when the text matches refund|chargeback|money back and
\* get_invoice otherwise; technical, restart_service when it matches
\* restart|crash|down|error and check_service_status otherwise; general,
\* general_faq.
C16_OneToolPerTurn ==
    pc = "output" =>
        tool = CASE issue_type = "billing" ->
                      (IF C9_Matches(user_text) THEN "refund" ELSE "get_invoice")
                 [] issue_type = "technical" ->
                      (IF C8_Matches(user_text) THEN "restart_service"
                       ELSE "check_service_status")
                 [] issue_type = "general" -> "general_faq"

\* a billing turn that says chargeback, not refund, invoked refund
C16_Witness ==
    /\ pc = "output"
    /\ issue_type = "billing"
    /\ user_text = "Billchargeback"
    /\ hint = "refund"
    /\ tool = "refund"

\* C17: after the profile setup no step changes CTX.name, and no step at all
\* adds, removes or changes an entry of CTX.extra.
C17_NameAndExtraKept ==
    [][/\ CTX'.extra = CTX.extra
       /\ pc # "start" => CTX'.name = CTX.name]_vars

\* Alice's session has ended after a turn with her name and extra as set
C17_Witness ==
    /\ pc = "end"
    /\ CTX.name = "Alice"
    /\ CTX.extra = <<>>
    /\ CTX.last_agent \in Categories

\* C18: once a line that is no exit token has been read, the turn runs to its
\* end: the context is reset and the loop is back at the prompt, whatever the
\* utterance, the classification answer and the outcome of a gate.
C18_TurnCompletes == (pc \in {"triage", "route", "output"}) ~> (pc = "receive")

\* a turn whose refund was refused has completed and the loop is at the prompt
C18_Witness ==
    /\ pc = "receive"
    /\ CTX.last_agent = "billing"
    /\ Len(console) = 2
    /\ console[2] = "Billing Agent → Refund tool disabled: premium membership required."

\* the context a responder runs on, built from the profile and the label of
\* the turn alone
C19_TurnContext(name, premium, it) ==
    [name |-> name, is_premium_user |-> premium, issue_type |-> it,
     last_agent |-> "triage", extra |-> <<>>]

\* the final output of a turn, from the profile, the utterance and the label
C19_Output(name, premium, text, it) ==
    guard_output(CallTool(AgentTool(RouteAgent(it), RouteHint(it, text)),
                          C19_TurnContext(name, premium, it)))

\* C19 as stated: the label and the final output of a turn are a function of
\* the name, is_premium_user and the utterance.  The turns in which the
\* classification step answers the keyword label are reachable, so that
\* function can only be the one of the keyword label.
C19_Original ==
    pc = "output" =>
        /\ issue_type = C15_Label(user_text)
        /\ final_output = C19_Output(CTX.name, CTX.is_premium_user, user_text,
                                     C15_Label(user_text))

\* C19: the label and the final output of a turn depend only on the name,
\* is_premium_user, the utterance of the turn and the answer of the
\* classification step to it, never on earlier turns: whatever last_agent an
\* earlier turn left, the label is the keyword label or general, the context
\* the responder runs on holds the profile and that label alone, and both
\* printed lines follow from them.
C19_HistoryFree ==
    [][/\ pc = "triage" =>
            /\ issue_type' \in {C15_Label(user_text), "general"}
            /\ CTX' = C19_TurnContext(CTX.name, CTX.is_premium_user, issue_type')
            /\ console' = Append(console,
                   "→ Handoff: Triage classified issue as '" \o issue_type' \o "'.")
       /\ pc = "route" =>
            final_output' = C19_Output(CTX.name, CTX.is_premium_user, user_text,
                                       issue_type)
       /\ pc = "output" =>
            console' = Append(console,
                   Title(issue_type) \o " Agent → " \o final_output)]_vars

\* a premium user's turn about a crash starts after a billing turn, with
\* last_agent still billing
C19_Witness ==
    /\ pc = "triage"
    /\ CTX.is_premium_user
    /\ CTX.last_agent = "billing"
    /\ user_text = "CRASH"

\* a text that carries the confirmation or the refusal of a refund
C20_RefundText(t) ==
    Contains(t, "Refund initiated for ") \/ Contains(t, RefundDisabled)

\* C20: refund is reached through the billing category only: a turn whose
\* utterance matches chargeback or money back and holds none of refund,
\* invoice, bill, payment is classified technical or general, its responder
\* is not the billing agent, it does not invoke refund, and neither its final
\* output nor a line it prints confirms or refuses a refund.
C20_RefundOnlyViaBilling ==
    [][(/\ pc \in {"triage", "route", "output"}
        /\ Contains(Lower(user_text), "chargeback")
             \/ Contains(Lower(user_text), "money back")
        /\ ~C5_HasBillingWord(Lower(user_text)))
       => /\ pc = "triage" =>
               /\ issue_type' \in {"technical", "general"}
               /\ CTX'.issue_type = issue_type'
          /\ pc = "route" =>
               /\ agent' # "billing_agent"
               /\ tool' \notin {"refund", "get_invoice"}
               /\ ~C20_RefundText(final_output')
          /\ pc = "output" =>
               \A i \in 1..Len(console') : ~C20_RefundText(console'[i])]_vars

\* a premium user asked for the money back without a billing keyword: the
\* turn is general and ran general_faq
C20_Witness ==
    /\ pc = "output"
    /\ CTX.is_premium_user
    /\ user_text = "I was charged twice, money back please"
    /\ issue_type = "general"
    /\ tool = "general_faq"
    /\ final_output = general_faq

====
